---- MODULE Spec2Model ----
(***************************************************************************)
(* Memory graph of AI-Memory-Management: Memory nodes, typed relationship  *)
(* edges and the vector-index shadow entries, with the service functions   *)
(* and route handlers that change them.                                    *)
(*                                                                         *)
(* Spec      the Neo4j stack (frontend/app/lib/services/memory.ts,         *)
(*           app/lib/services/relationship.ts and the routes over them).   *)
(*           Every service function issues one Cypher statement inside one *)
(*           session.executeWrite transaction, so a handler is one action. *)
(* SpecMongo the MongoDB relationship service (unnamed/part_002), whose    *)
(*           createRelationship issues three separate awaited writes; each *)
(*           write is one action and a write may fail.                     *)
(***************************************************************************)
EXTENDS Integers, FiniteSets, Sequences, TLC

\* ------------------------------------------------------------------ bounds
MaxMem == 3      \* memory ids genId('mem') hands out
MaxRel == 2      \* relationship ids genId('rel') hands out
NumUsers == 2    \* users, one namespace user_<id> each
MaxCalls == 2    \* createRelationship calls of the MongoDB service
MaxClock == 2    \* values new Date() takes after the first
MaxEdges == 3    \* relationships of the stores the relationship reads are applied to
MaxClusters == 1 \* clusters one run of dbscan returns
MaxEnsure == 3   \* ensureUserNamespace calls

MemIds == 1..MaxMem
RelIds == 1..MaxRel
Namespaces == 1..NumUsers

\* ------------------------------------------------------------- constants
NULL == 0                 \* null supersedes / superseded_by / getMemory result
NoNamespace == 0          \* namespace argument omitted (undefined)
TopK == 3                 \* searchEmbeddings(embeddingVector, 3, namespace)
Threshold == 80           \* if (match.score < 0.8) continue;   (score * 100)
Scores == {50, 80, 95}    \* similarity scores the index may report (* 100)

\* body.content of POST /api/memories: the empty string and a text
Contents == {"", "a"}

\* a JSON value that may arrive as body.metadata: absent (undefined), null,
\* or an object, given by its set of <<key, value>> properties
Undefined == [kind |-> "undefined", props |-> {}]
JsonNull == [kind |-> "null", props |-> {}]
JsonObject(props) == [kind |-> "object", props |-> props]
Metadatas == {Undefined, JsonNull, JsonObject({}), JsonObject({<<"source", "pdf">>})}

\* the request bodies of POST /api/memories
Bodies == [content : Contents, metadata : Metadatas]
OneBody == {[content |-> "a", metadata |-> Undefined]}

MemoryStatus == {"current", "outdated"}
RelationshipType == {"update", "extend", "derive", "related"}

VARIABLES
  memories,   \* Memory nodes: id -> [namespace, status, supersedes, superseded_by, vector_id,
              \*                      content, metadata, updated_at]
  rels,       \* relationship edges: set of [id, from, to, label]
  vectors,    \* vector index entries: set of [id, memory_id, namespace]
  nextMem,    \* ids genId('mem') / genId('vec') has handed out, plus one
  nextRel,    \* ids genId('rel') has handed out, plus one
  calls,      \* createRelationship calls of the MongoDB service: seq of call records
  deleted,    \* history: what each successful DELETE found, id -> [namespace, vector_id, vecOk, hadVector, edges]
  now,        \* what new Date() returns
  last,       \* history: the last observed call, its inputs and its reply
  memory_clusters,  \* rows of the table memory_clusters: set of [user_id, memory_id, cluster_id]
  cluster_nodes,    \* Cluster nodes: set of [cluster_id, user_id]
  belongs_to,       \* BELONGS_TO edges: set of [from, cluster_id, user_id]
  namespace_rows,   \* rows of the table namespaces with is_default: user -> number of rows
  ensureCalls       \* ensureUserNamespace calls: seq of [user, pc]

clusterVars == <<memory_clusters, cluster_nodes, belongs_to>>
namespaceVars == <<namespace_rows, ensureCalls>>
vars == <<memories, rels, vectors, nextMem, nextRel, calls, deleted, now, last,
          memory_clusters, cluster_nodes, belongs_to, namespace_rows, ensureCalls>>

Init ==
  /\ memories = <<>>
  /\ rels = {}
  /\ vectors = {}
  /\ nextMem = 1
  /\ nextRel = 1
  /\ calls = <<>>
  /\ deleted = <<>>
  /\ now = 0
  /\ last = [op |-> "none"]
  /\ memory_clusters = {}
  /\ cluster_nodes = {}
  /\ belongs_to = {}
  /\ namespace_rows = [u \in Namespaces |-> 1]
  /\ ensureCalls = <<>>

\* ----------------------------------------------------------- Memory reads
\* The reads take the store they read (mems: the Memory nodes, rs: the
\* relationships, vs: the index entries); the handlers pass the variables.

\* JSON.stringify of an object: the text, as the sequence of its
\* "key":"value" members
RECURSIVE Members(_)
Members(props) ==
  IF props = {} THEN <<>>
  ELSE LET p == CHOOSE x \in props : TRUE
       IN  <<p>> \o Members(props \ {p})
JSONstringify(value) ==
  IF value.kind = "object" THEN [text |-> "object", members |-> Members(value.props)]
                           ELSE [text |-> value.kind, members |-> <<>>]

\* JSON.parse of such a text
JSONparse(json) ==
  IF json.text = "object"
  THEN JsonObject({json.members[i] : i \in DOMAIN json.members})
  ELSE [kind |-> json.text, props |-> {}]

\* memory.metadata || {}: undefined and null are falsy, an object is not
AlwaysEmptyObject(value) == JsonObject({})
OrEmptyObject(value) ==
  IF value.kind \in {"undefined", "null"} THEN JsonObject({}) ELSE value

\* the Memory object the services build from a node
ToMemory(mems, id) ==
  [id |-> id,
   content |-> mems[id].content,
   embedding_id |-> mems[id].vector_id,
   status |-> mems[id].status,
   supersedes |-> mems[id].supersedes,
   superseded_by |-> mems[id].superseded_by,
   metadata |-> JSONparse(mems[id].metadata)]

\* MATCH (m:Memory {id: $id, namespace: $namespace}) when a namespace is given,
\* MATCH (m:Memory {id: $id}) otherwise
MatchMemoryNoFilter(mems, id, namespace) == id \in DOMAIN mems
MatchMemory(mems, id, namespace) ==
  /\ id \in DOMAIN mems
  /\ (namespace # NoNamespace => mems[id].namespace = namespace)

\* getMemory(memoryId, namespace): the Memory, or null
getMemory(mems, memoryId, namespace) ==
  IF MatchMemory(mems, memoryId, namespace) THEN ToMemory(mems, memoryId)
                                            ELSE [id |-> NULL]

\* getAllMemories(namespace)
getAllMemories(mems, namespace) ==
  {ToMemory(mems, id) : id \in {i \in DOMAIN mems : MatchMemory(mems, i, namespace)}}

\* const relType = relationship.type.toUpperCase(); the update branch writes
\* the label UPDATES in its own Cypher text
Label(type) ==
  CASE type = "update" -> "UPDATES"
    [] type = "extend" -> "EXTEND"
    [] type = "derive" -> "DERIVE"
    [] type = "related" -> "RELATED"

\* type(r).toLowerCase() of the read paths
ToLowerCase(label) ==
  CASE label = "UPDATES" -> "updates"
    [] label = "EXTEND" -> "extend"
    [] label = "DERIVE" -> "derive"
    [] label = "RELATED" -> "related"

\* the Relationship object the read paths build from an edge
ToRelationship(r) ==
  [id |-> r.id, from_memory |-> r.from, to_memory |-> r.to, type |-> ToLowerCase(r.label)]

\* getRelationship(relationshipId): MATCH (from:Memory)-[r]->(to:Memory)
\* WHERE r.id = $id, the Relationship of the first row, or null
getRelationship(rs, relationshipId) ==
  IF \E r \in rs : r.id = relationshipId
  THEN ToRelationship(CHOOSE r \in rs : r.id = relationshipId)
  ELSE [id |-> NULL]

\* GET /api/memories/:id/lineage (Neo4j): the root is matched with the
\* namespace; OPTIONAL MATCH (m)-[r_out]->(other_out:Memory {namespace}) and
\* OPTIONAL MATCH (other_in:Memory {namespace})-[r_in]->(m), both DISTINCT
LineageEdges(mems, rs, memoryId, namespace) ==
  {r \in rs : \/ r.from = memoryId /\ MatchMemory(mems, r.to, namespace)
              \/ r.to = memoryId /\ MatchMemory(mems, r.from, namespace)}

lineageOf(mems, rs, memoryId, namespace) ==
  IF getMemory(mems, memoryId, namespace).id = NULL
  THEN [status |-> 404]
  ELSE LET es == LineageEdges(mems, rs, memoryId, namespace)
       IN  [status |-> 200,
            memory |-> getMemory(mems, memoryId, namespace),
            relationships |-> {ToRelationship(r) : r \in es},
            related_memories |->
              {ToMemory(mems, i) : i \in {r.to : r \in {e \in es : e.from = memoryId}}
                                       \cup {r.from : r \in {e \in es : e.to = memoryId}}}]

\* GET /api/memories/graph (Neo4j): MATCH (m:Memory {namespace}) and
\* MATCH (from:Memory {namespace})-[r]->(to:Memory {namespace})
graphOf(mems, rs, namespace) ==
  [memories |-> getAllMemories(mems, namespace),
   relationships |-> {ToRelationship(r) : r \in
                        {e \in rs : /\ MatchMemory(mems, e.from, namespace)
                                    /\ MatchMemory(mems, e.to, namespace)}}]

\* GET /api/search: searchEmbeddings(queryEmbedding, 10, pineconeNamespace)
\* answers with entries of that index namespace; hits is the set of their
\* metadata.memory_id
SearchHits(vs, namespace) ==
  SUBSET {v.memory_id : v \in {x \in vs : x.namespace = namespace}}

\* MATCH (m:Memory {namespace: $namespace}) WHERE m.id IN $memoryIds
searchMemories(mems, hits, namespace) ==
  {ToMemory(mems, i) : i \in {h \in hits : MatchMemory(mems, h, namespace)}}

\* the fallback when the vector search throws:
\* MATCH (m:Memory {status: 'current', namespace: $namespace})
searchFallback(mems, namespace) ==
  {m \in getAllMemories(mems, namespace) : m.status = "current"}

\* ------------------------------------------------------ Relationship engine
\* MATCH (from:Memory {id: $fromId}) MATCH (to:Memory {id: $toId}): one row
\* when both nodes exist, none otherwise; no namespace is part of the match
MatchEndpoints(mems, fromId, toId) ==
  fromId \in DOMAIN mems /\ toId \in DOMAIN mems

\* SET from.status = $status, from.superseded_by = $toId, from.updated_at
\* SET to.supersedes = $fromId, to.updated_at   (the second SET sees the first)
SetSupersession(mems, fromId, toId) ==
  LET m1 == [mems EXCEPT ![fromId].status = "outdated",
                         ![fromId].superseded_by = toId,
                         ![fromId].updated_at = now]
  IN  [m1 EXCEPT ![toId].supersedes = fromId,
                 ![toId].updated_at = now]

\* if (relationship.type === RelationshipType.UPDATE)
SetsSupersessionAlways(type) == TRUE
SetsSupersession(type) == type = "update"

\* MERGE (from)-[r:LABEL {id: $id, ...}]->(to): the pattern carries the fresh
\* id, so it matches no existing relationship and a new one is created
MergeEdge(rs, relationshipId, fromId, toId, type) ==
  rs \cup {[id |-> relationshipId, from |-> fromId, to |-> toId, label |-> Label(type)]}

\* createRelationship(fromMemoryId, {to, type}) on the graph (mems, rs) with
\* relationshipId the id genId('rel') returns: the graph after the single
\* write transaction, and ok = FALSE when results.length === 0 (it throws)
createRelationship(mems, rs, relationshipId, fromId, toId, type) ==
  IF ~MatchEndpoints(mems, fromId, toId)
  THEN [memories |-> mems, rels |-> rs, ok |-> FALSE]
  ELSE [memories |-> IF SetsSupersession(type) THEN SetSupersession(mems, fromId, toId)
                                               ELSE mems,
        rels |-> MergeEdge(rs, relationshipId, fromId, toId, type),
        ok |-> TRUE]

\* observe: whether the call and its reply are kept in last
Reply(observe, call) == last' = IF observe THEN call ELSE last

\* POST /api/memories/:id/relationships: body.to and body.type are validated,
\* then createRelationship; the handler reads no identity and no namespace.
\* 201 with the relationship, 500 when createRelationship throws
POST_relationships(fromId, toId, type, observe) ==
  /\ nextRel <= MaxRel
  /\ LET r == createRelationship(memories, rels, nextRel, fromId, toId, type)
     IN  /\ memories' = r.memories
         /\ rels' = r.rels
         /\ nextRel' = IF r.ok THEN nextRel + 1 ELSE nextRel
         /\ Reply(observe, [op |-> "link", from |-> fromId, to |-> toId, type |-> type,
                            status |-> IF r.ok THEN 201 ELSE 500,
                            resolved |-> MatchEndpoints(memories, fromId, toId)])
  /\ UNCHANGED <<clusterVars, namespaceVars, vectors, nextMem, calls, deleted, now>>

\* deleteRelationship(relationshipId): MATCH ()-[r]->() WHERE r.id = $id DELETE r
DeleteEdgeAndRevert(mems, rs, relationshipId) ==
  [memories |-> [i \in DOMAIN mems |->
                   IF \E r \in rs : r.id = relationshipId /\ r.from = i
                   THEN [mems[i] EXCEPT !.status = "current"] ELSE mems[i]],
   rels |-> {r \in rs : r.id # relationshipId}]
DeleteEdge(mems, rs, relationshipId) ==
  [memories |-> mems, rels |-> {r \in rs : r.id # relationshipId}]

\* the promise resolves whether or not a relationship matched
deleteRelationship(relationshipId, observe) ==
  /\ LET d == DeleteEdge(memories, rels, relationshipId)
     IN  /\ memories' = d.memories
         /\ rels' = d.rels
  /\ Reply(observe, [op |-> "unlink", id |-> relationshipId, status |-> 200,
                     resolved |-> \E r \in rels : r.id = relationshipId])
  /\ UNCHANGED <<clusterVars, namespaceVars, vectors, nextMem, nextRel, calls, deleted, now>>

\* ------------------------------------------------------------ Memory store
\* MATCH (m:Memory {id: $id, namespace: $namespace})
\* SET m.status = $status, m.updated_at = datetime($updated_at)
SetStatusAndTime(mems, memoryId, status, namespace) ==
  [i \in DOMAIN mems |->
     IF MatchMemory(mems, memoryId, namespace) /\ i = memoryId
     THEN [mems[i] EXCEPT !.status = status, !.updated_at = now]
     ELSE mems[i]]

\* updateMemoryStatus(memoryId, status, namespace); the promise resolves
\* whether or not a node matched
updateMemoryStatus(memoryId, status, namespace, observe) ==
  /\ memories' = SetStatusAndTime(memories, memoryId, status, namespace)
  /\ Reply(observe, [op |-> "setStatus", id |-> memoryId, namespace |-> namespace,
                     arg |-> status, status |-> 200,
                     resolved |-> MatchMemory(memories, memoryId, namespace),
                     prior |-> IF MatchMemory(memories, memoryId, namespace)
                               THEN memories[memoryId].status ELSE "none"])
  /\ UNCHANGED <<clusterVars, namespaceVars, rels, vectors, nextMem, nextRel, calls, deleted, now>>

\* the elements of a set of numbers in ascending order
RECURSIVE Ascending(_)
Ascending(S) ==
  IF S = {} THEN <<>>
  ELSE LET m == CHOOSE x \in S : \A y \in S : x <= y
       IN  <<m>> \o Ascending(S \ {m})

\* the dynamic-linking loop of createMemory: one createRelationship(memoryId,
\* target, RELATED) per target, each in its own try/catch; g is the graph
\* [memories, rels, nextRel, n] and n counts the links made
RECURSIVE AutoLinkUntilFailure(_, _, _)
AutoLinkUntilFailure(g, memoryId, targets) ==
  IF targets = <<>> THEN g
  ELSE LET r == createRelationship(g.memories, g.rels, g.nextRel,
                                   memoryId, Head(targets), "related")
       IN  IF ~r.ok THEN g
           ELSE AutoLinkUntilFailure([memories |-> r.memories, rels |-> r.rels,
                                      nextRel |-> g.nextRel + 1, n |-> g.n + 1],
                                     memoryId, Tail(targets))
RECURSIVE AutoLink(_, _, _)
AutoLink(g, memoryId, targets) ==
  IF targets = <<>> THEN g
  ELSE LET r == createRelationship(g.memories, g.rels, g.nextRel,
                                   memoryId, Head(targets), "related")
       IN  AutoLink([memories |-> r.memories, rels |-> r.rels,
                     nextRel |-> IF r.ok THEN g.nextRel + 1 ELSE g.nextRel,
                     n |-> IF r.ok THEN g.n + 1 ELSE g.n],
                    memoryId, Tail(targets))

\* the memory ids the loop links to: score not below the threshold, a
\* memory_id in the metadata, and not the new memory itself
Qualifies(match, memoryId) ==
  ~(match.score < Threshold) /\ match.memory_id # NULL /\ match.memory_id # memoryId

\* if (embeddingVector.length > 0): the vector is assigned when createEmbedding
\* returns, before upsertEmbedding is awaited
HasVectorAndEntry(embedOk, upsertOk) == embedOk /\ upsertOk
HasVector(embedOk, upsertOk) == embedOk

\* createMemory(memory, userId, namespace).  embedOk: createEmbedding returned
\* a vector; upsertOk: upsertEmbedding succeeded; matches: what
\* searchEmbeddings(embeddingVector, 3, namespace) returned, a set of
\* [memory_id, score] (empty when the search throws).  It returns the Memory
\* built from the created node
createMemory(namespace, body, embedOk, upsertOk, matches, observe) ==
  LET memoryId == nextMem
      embeddingId == nextMem
      node == [namespace |-> namespace, status |-> "current",
               supersedes |-> NULL, superseded_by |-> NULL,
               vector_id |-> embeddingId,
               content |-> body.content,
               metadata |-> JSONstringify(OrEmptyObject(body.metadata)),
               updated_at |-> now]
      mems1 == [i \in DOMAIN memories \cup {memoryId} |->
                  IF i = memoryId THEN node ELSE memories[i]]
      targets == Ascending({m.memory_id : m \in {x \in matches : Qualifies(x, memoryId)}})
      g == IF HasVector(embedOk, upsertOk)
           THEN AutoLink([memories |-> mems1, rels |-> rels, nextRel |-> nextRel, n |-> 0],
                         memoryId, targets)
           ELSE [memories |-> mems1, rels |-> rels, nextRel |-> nextRel, n |-> 0]
  IN  /\ g.nextRel <= MaxRel + 1
      /\ memories' = g.memories
      /\ rels' = g.rels
      /\ nextRel' = g.nextRel
      /\ nextMem' = nextMem + 1
      /\ Reply(observe, [op |-> "create", status |-> 201, id |-> memoryId,
                         namespace |-> namespace, body |-> body,
                         embedOk |-> embedOk, upsertOk |-> upsertOk,
                         matches |-> matches, links |-> g.n,
                         memory |-> ToMemory(mems1, memoryId)])
      /\ UNCHANGED <<clusterVars, namespaceVars, calls, deleted, now>>

\* what searchEmbeddings may return for the namespace once vs are the index
\* entries: at most topK entries of that namespace, each with a score
SearchResults(vs, namespace) ==
  UNION {[memory_id : {v.memory_id}, score : Scores] : v \in {x \in vs : x.namespace = namespace}}

\* if (!body.content || typeof body.content !== 'string') return 400
ValidBodyAny(body) == TRUE
ValidBody(body) == body.content # ""

\* POST /api/memories.  namespace: the user's namespace from requireAuth and
\* ensureUserNamespace, NoNamespace when the request carries no user (the
\* handler returns the 401 of requireAuth); outcomes: whether a call to the
\* embedding provider or the index may fail; bodies: the request bodies
POST_memories(namespace, outcomes, bodies, observe) ==
  /\ nextMem <= MaxMem
  /\ \E body \in bodies :
       IF namespace = NoNamespace \/ ~ValidBody(body)
       THEN /\ Reply(observe, [op |-> "create",
                               status |-> IF namespace = NoNamespace THEN 401 ELSE 400,
                               namespace |-> namespace, body |-> body])
            /\ UNCHANGED <<clusterVars, namespaceVars, memories, rels, vectors, nextMem, nextRel, calls, deleted, now>>
       ELSE \E embedOk, upsertOk \in outcomes :
              LET added == IF embedOk /\ upsertOk
                           THEN {[id |-> nextMem, memory_id |-> nextMem, namespace |-> namespace]}
                           ELSE {}
              IN  /\ vectors' = vectors \cup added
                  /\ \E matches \in SUBSET SearchResults(vectors \cup added, namespace) :
                       /\ Cardinality(matches) <= TopK
                       /\ \A a, b \in matches : a.memory_id = b.memory_id => a = b
                       /\ (~embedOk => matches = {})
                       /\ createMemory(namespace, body, embedOk, upsertOk, matches, observe)

\* deleteEmbedding(embeddingId, namespace): ns.deleteOne(embeddingId)
deleteEmbedding(vs, embeddingId, namespace) ==
  {v \in vs : ~(v.id = embeddingId /\ v.namespace = namespace)}

\* MATCH (m:Memory {id: $id, namespace: $namespace}) DETACH DELETE m
DeleteNodeOnly(mems, rs, memoryId) ==
  [memories |-> [i \in DOMAIN mems \ {memoryId} |-> mems[i]],
   rels |-> {r \in rs : r.to # memoryId}]
DetachDelete(mems, rs, memoryId) ==
  [memories |-> [i \in DOMAIN mems \ {memoryId} |-> mems[i]],
   rels |-> {r \in rs : r.from # memoryId /\ r.to # memoryId}]

\* try { await deleteEmbedding(...) } catch (error) { console.warn(...) }:
\* whether deleteMemory goes on to the graph when deleteEmbedding ended as vecOk
RethrowsVectorFailure(vecOk) == vecOk
ContinuesAfterDeleteEmbedding(vecOk) == TRUE

\* deleteMemory(memoryId, namespace); vecOk: deleteEmbedding did not throw
deleteMemory(memoryId, namespace, vecOk) ==
  LET memory == getMemory(memories, memoryId, namespace)
      d == IF /\ MatchMemory(memories, memoryId, namespace)
              /\ ContinuesAfterDeleteEmbedding(vecOk)
           THEN DetachDelete(memories, rels, memoryId)
           ELSE [memories |-> memories, rels |-> rels]
  IN  /\ memories' = d.memories
      /\ rels' = d.rels
      /\ vectors' = IF memory.id # NULL /\ memory.embedding_id # NULL /\ vecOk
                    THEN deleteEmbedding(vectors, memory.embedding_id, namespace)
                    ELSE vectors
      /\ belongs_to' = IF /\ MatchMemory(memories, memoryId, namespace)
                          /\ ContinuesAfterDeleteEmbedding(vecOk)
                       THEN {e \in belongs_to : e.from # memoryId}
                       ELSE belongs_to

\* DELETE /api/memories/:id: 404 when getMemory returns null, else 200
DELETE_memories(id, namespace, outcomes, observe) ==
  IF getMemory(memories, id, namespace).id = NULL
  THEN /\ Reply(observe, [op |-> "delete", id |-> id, namespace |-> namespace,
                          status |-> 404, resolved |-> FALSE])
       /\ UNCHANGED <<clusterVars, namespaceVars, memories, rels, vectors, nextMem, nextRel, calls, deleted, now>>
  ELSE /\ \E vecOk \in outcomes :
            /\ deleteMemory(id, namespace, vecOk)
            /\ deleted' = [i \in DOMAIN deleted \cup {id} |->
                             IF i = id
                             THEN [namespace |-> namespace,
                                   vector_id |-> memories[id].vector_id,
                                   vecOk |-> vecOk,
                                   hadVector |-> \E v \in vectors :
                                                   /\ v.id = memories[id].vector_id
                                                   /\ v.namespace = namespace,
                                   edges |-> Cardinality({r \in rels : r.from = id \/ r.to = id})]
                             ELSE deleted[i]]
       /\ Reply(observe, [op |-> "delete", id |-> id, namespace |-> namespace,
                          status |-> 200, resolved |-> TRUE])
       /\ UNCHANGED <<memory_clusters, cluster_nodes, namespaceVars, nextMem, nextRel, calls, now>>

\* the outcomes of a call to the embedding provider or the vector index
Available == {TRUE}
MayFail == {TRUE, FALSE}

\* the handlers, with relationship types drawn from types and provider calls
\* ending as outcomes allows
Handlers(types, outcomes) ==
  \/ \E ns \in Namespaces : POST_memories(ns, outcomes, OneBody, FALSE)
  \/ \E f, t \in MemIds, ty \in types : POST_relationships(f, t, ty, FALSE)
  \/ \E id \in RelIds : deleteRelationship(id, FALSE)
  \/ \E id \in MemIds, ns \in Namespaces : DELETE_memories(id, ns, outcomes, FALSE)

SetStatus ==
  \E id \in MemIds, st \in MemoryStatus, ns \in Namespaces :
    updateMemoryStatus(id, st, ns, FALSE)

\* every handler, every relationship type; embedding provider and index up
Next == Handlers(RelationshipType, Available) \/ SetStatus

Spec == Init /\ [][Next]_vars

\* create, link, unlink and delete only: no setStatus
NextLinks == Handlers(RelationshipType, Available)

SpecLinks == Init /\ [][NextLinks]_vars

\* provider and index calls may fail
NextFaults == Handlers({"update", "related"}, MayFail)

SpecFaults == Init /\ [][NextFaults]_vars

\* creation and deletion with every request body, failing providers, requests
\* without a user, and the calls observed
NextCreate ==
  \/ \E ns \in Namespaces \cup {NoNamespace} : POST_memories(ns, MayFail, Bodies, TRUE)
  \/ \E id \in MemIds, ns \in Namespaces : DELETE_memories(id, ns, MayFail, TRUE)

SpecCreate == Init /\ [][NextCreate]_vars

\* create and link only: nothing is unlinked or deleted
NextBuild ==
  \/ \E ns \in Namespaces : POST_memories(ns, Available, OneBody, FALSE)
  \/ \E f, t \in MemIds, ty \in RelationshipType : POST_relationships(f, t, ty, FALSE)

SpecBuild == Init /\ [][NextBuild]_vars

\* create and link of every type, with the replies kept
NextTypes ==
  \/ POST_memories(1, Available, OneBody, TRUE)
  \/ \E f, t \in MemIds, ty \in RelationshipType : POST_relationships(f, t, ty, TRUE)

SpecTypes == Init /\ [][NextTypes]_vars

\* new Date() returns a later time
Tick ==
  /\ now < MaxClock
  /\ now' = now + 1
  /\ UNCHANGED <<clusterVars, namespaceVars, memories, rels, vectors, nextMem, nextRel, calls, deleted, last>>

\* every operation of the graph stack with its reply kept: create (by the
\* first user; the other user's namespace resolves nothing), link (type
\* update), unlink, delete, setStatus
NextOps ==
  \/ POST_memories(1, Available, OneBody, TRUE)
  \/ \E f, t \in MemIds : POST_relationships(f, t, "update", TRUE)
  \/ \E id \in RelIds : deleteRelationship(id, TRUE)
  \/ \E id \in MemIds, ns \in Namespaces : DELETE_memories(id, ns, Available, TRUE)
  \/ \E id \in MemIds, st \in MemoryStatus, ns \in Namespaces :
       updateMemoryStatus(id, st, ns, TRUE)

SpecOps == Init /\ [][NextOps]_vars

\* create and setStatus with their replies kept, while time passes
NextClock ==
  \/ POST_memories(1, Available, OneBody, TRUE)
  \/ \E id \in MemIds, st \in MemoryStatus, ns \in Namespaces :
       updateMemoryStatus(id, st, ns, TRUE)
  \/ Tick

SpecClock == Init /\ [][NextClock]_vars

\* create, link and unlink while time passes
NextTouch ==
  \/ POST_memories(1, Available, OneBody, FALSE)
  \/ \E f, t \in MemIds, ty \in RelationshipType : POST_relationships(f, t, ty, FALSE)
  \/ \E id \in RelIds : deleteRelationship(id, FALSE)
  \/ Tick

SpecTouch == Init /\ [][NextTouch]_vars

\* -------------------------------------------------------------- namespaces
\* getUserDefaultNamespace(userId): select ... .eq('user_id', userId)
\* .eq('is_default', true).single(); single() answers with an error unless
\* exactly one row matches, and the function then returns null
getUserDefaultNamespace(rows, userId) == rows[userId] = 1

\* the pair of the row of user u: pinecone_namespace = graph_namespace = user_u
\* (ensureUserNamespace's insert and the signup trigger write the same names)
NamespacePair(u) == [pineconeNamespace |-> u, graphNamespace |-> u]

\* a call of ensureUserNamespace(userId) begins; served: whether a call for
\* this user had returned before
EnsureStart(u) ==
  /\ Len(ensureCalls) < MaxEnsure
  /\ ensureCalls' = Append(ensureCalls,
                            [user |-> u, pc |-> "select", inserted |-> FALSE,
                             served |-> \E k \in DOMAIN ensureCalls :
                                          ensureCalls[k].user = u /\ ensureCalls[k].pc = "done"])
  /\ UNCHANGED <<namespace_rows, clusterVars, memories, rels, vectors, nextMem, nextRel,
                 calls, deleted, now, last>>

\* const existing = await getUserDefaultNamespace(userId);
\* if (existing) return existing
EnsureSelect(k) ==
  /\ k \in DOMAIN ensureCalls /\ ensureCalls[k].pc = "select"
  /\ ensureCalls' = [ensureCalls EXCEPT
                       ![k].pc = IF getUserDefaultNamespace(namespace_rows, ensureCalls[k].user)
                                 THEN "done" ELSE "insert"]
  /\ UNCHANGED <<namespace_rows, clusterVars, memories, rels, vectors, nextMem, nextRel,
                 calls, deleted, now, last>>

\* .from('namespaces').insert({user_id, ..., is_default: true}); the table
\* has no unique constraint over (user_id, is_default), so the row is added
EnsureInsert(k) ==
  /\ k \in DOMAIN ensureCalls /\ ensureCalls[k].pc = "insert"
  /\ namespace_rows' = [namespace_rows EXCEPT ![ensureCalls[k].user] = @ + 1]
  /\ ensureCalls' = [ensureCalls EXCEPT ![k].pc = "done", ![k].inserted = TRUE]
  /\ UNCHANGED <<clusterVars, memories, rels, vectors, nextMem, nextRel,
                 calls, deleted, now, last>>

\* what a returned call returned: the pair of the row it found or inserted
Returned(k) == NamespacePair(ensureCalls[k].user)

\* a user has the row of the signup trigger, or none yet
InitNamespaces ==
  /\ namespace_rows \in [Namespaces -> {0, 1}]
  /\ ensureCalls = <<>>
  /\ memories = <<>> /\ rels = {} /\ vectors = {}
  /\ nextMem = 1 /\ nextRel = 1 /\ calls = <<>> /\ deleted = <<>>
  /\ now = 0 /\ last = [op |-> "none"]
  /\ memory_clusters = {} /\ cluster_nodes = {} /\ belongs_to = {}

\* concurrent calls of ensureUserNamespace, each a read and then an insert
NextNamespaces ==
  \/ \E u \in Namespaces : EnsureStart(u)
  \/ \E k \in 1..MaxEnsure : EnsureSelect(k)
  \/ \E k \in 1..MaxEnsure : EnsureInsert(k)

SpecNamespaces == InitNamespaces /\ [][NextNamespaces]_vars

\* -------------------------------------------------------------- clustering
MinVectors == 3

\* runClustering(vectors, epsilon = 0.5, minPoints = 3)
MinPoints == 3

\* genId(prefix): `${prefix}_${base64}`; ids of different prefixes differ
MemId(n) == <<"mem", n>>
VecId(n) == <<"vec", n>>

\* getVectorsForClustering(namespace): {id: m.id, values} of every match of
\* the query on the index namespace; m.id is the id the entry was upserted
\* with, the embeddingId
getVectorsForClustering(vs, namespace) ==
  {VecId(v.id) : v \in {x \in vs : x.namespace = namespace}}

\* dbscan.run(dataset, epsilon, minPoints) and dbscan.noise: the vector values
\* are not part of the state, so the grouping is drawn: every point in one of
\* the clusters 0, 1, ... or in noise (-1)
Groupings(ids) ==
  {f \in [ids -> -1..(MaxClusters - 1)] :
     \A k \in 1..(MaxClusters - 1) :
       (\E i \in ids : f[i] = k) => (\E i \in ids : f[i] = k - 1)}

\* runClustering(vectors): [] for no vectors; one result per cluster with its
\* index as clusterId, and one with clusterId -1 for the noise when there is any
runClustering(ids, f) ==
  IF ids = {} THEN {}
  ELSE {[clusterId |-> k, memoryIds |-> {i \in ids : f[i] = k}, noise |-> FALSE]
          : k \in {f[i] : i \in ids} \ {-1}}
       \cup (IF \E i \in ids : f[i] = -1
             THEN {[clusterId |-> -1, memoryIds |-> {i \in ids : f[i] = -1}, noise |-> TRUE]}
             ELSE {})

\* for (const cluster of assignments) { if (cluster.noise) continue; ... }
PersistsEveryGroup(cluster) == TRUE
Persists(cluster) == ~cluster.noise

\* the records saveClusterAssignments prepares
Records(userId, assignments) ==
  UNION {{[user_id |-> userId, memory_id |-> id, cluster_id |-> c.clusterId]
            : id \in c.memoryIds} : c \in {a \in assignments : Persists(a)}}

\* .upsert(records, { onConflict: 'memory_id' })
Upsert(rows, records) ==
  {r \in rows : ~\E n \in records : n.memory_id = r.memory_id} \cup records

\* MATCH (m:Memory {id: memId})
MatchMemoryId(mems, memId) == memId[1] = "mem" /\ memId[2] \in DOMAIN mems

\* saveClusterAssignments(userId, assignments) on the table rows mc, the
\* Cluster nodes cn and the BELONGS_TO edges bt.  upsertOk: the upsert returned
\* no error (it throws otherwise); syncOk: the clusterIds whose executeWrite
\* did not throw (its catch only logs; none is reached after a failed
\* upsert).  ok: it did not throw
saveClusterAssignments(mc, cn, bt, mems, userId, assignments, upsertOk, syncOk) ==
  LET records == Records(userId, assignments)
      synced == {c \in assignments : Persists(c) /\ c.clusterId \in syncOk}
  IN  IF records # {} /\ ~upsertOk
      THEN [memory_clusters |-> mc, cluster_nodes |-> cn, belongs_to |-> bt, ok |-> FALSE]
      ELSE [memory_clusters |-> Upsert(mc, records),
            cluster_nodes |-> cn \cup {[cluster_id |-> c.clusterId, user_id |-> userId]
                                          : c \in synced},
            belongs_to |-> bt \cup UNION {{[from |-> id[2], cluster_id |-> c.clusterId,
                                              user_id |-> userId]
                                               : id \in {x \in c.memoryIds :
                                                           MatchMemoryId(mems, x)}}
                                             : c \in synced},
            ok |-> TRUE]

\* if (vectors.length < 3) return { message: 'Not enough memories to cluster' }
NoVectors(n) == n = 0
TooFewVectors(n) == n < MinVectors

\* POST /api/memory/cluster/run.  userId: NoNamespace when the request carries
\* no user (401); 404 without a default namespace; the namespace of user u is
\* user_u.  outcomes: whether the storage calls may fail
POST_cluster_run(userId, outcomes, observe) ==
  IF userId = NoNamespace \/ ~getUserDefaultNamespace(namespace_rows, userId)
  THEN /\ Reply(observe, [op |-> "cluster", user |-> userId, ran |-> FALSE, count |-> 0,
                          status |-> IF userId = NoNamespace THEN 401 ELSE 404])
       /\ UNCHANGED <<clusterVars, namespaceVars, memories, rels, vectors, nextMem,
                      nextRel, calls, deleted, now>>
  ELSE LET vs == getVectorsForClustering(vectors, userId)
       IN  IF TooFewVectors(Cardinality(vs))
           THEN /\ Reply(observe, [op |-> "cluster", user |-> userId, ran |-> FALSE,
                                   count |-> Cardinality(vs), status |-> 200])
                /\ UNCHANGED <<clusterVars, namespaceVars, memories, rels, vectors,
                               nextMem, nextRel, calls, deleted, now>>
           ELSE \E f \in Groupings(vs) :
                  LET results == runClustering(vs, f)
                      clusterIds == {c.clusterId : c \in {a \in results : Persists(a)}}
                  IN  \E upsertOk \in (IF Records(userId, results) = {} THEN {TRUE} ELSE outcomes),
                         syncOk \in (IF FALSE \in outcomes THEN SUBSET clusterIds ELSE {clusterIds}) :
                        /\ ~upsertOk => syncOk = {}
                        /\ LET s == saveClusterAssignments(memory_clusters, cluster_nodes,
                                                            belongs_to, memories, userId,
                                                            results, upsertOk, syncOk)
                           IN  /\ memory_clusters' = s.memory_clusters
                               /\ cluster_nodes' = s.cluster_nodes
                               /\ belongs_to' = s.belongs_to
                               /\ Reply(observe, [op |-> "cluster", user |-> userId,
                                                  ran |-> TRUE, count |-> Cardinality(vs),
                                                  status |-> IF s.ok THEN 200 ELSE 500,
                                                  results |-> results, upsertOk |-> upsertOk,
                                                  syncOk |-> syncOk])
                        /\ UNCHANGED <<namespaceVars, memories, rels, vectors, nextMem,
                                       nextRel, calls, deleted, now>>

\* one user creates and deletes memories and clustering runs for every user
NextCluster ==
  \/ POST_memories(1, Available, OneBody, FALSE)
  \/ \E id \in MemIds : DELETE_memories(id, 1, Available, FALSE)
  \/ \E u \in Namespaces \cup {NoNamespace} : POST_cluster_run(u, Available, TRUE)

SpecCluster == Init /\ [][NextCluster]_vars

\* one user creates memories and clustering runs while its storage may fail
NextClusterFaults ==
  \/ POST_memories(1, Available, OneBody, FALSE)
  \/ \E u \in Namespaces \cup {NoNamespace} : POST_cluster_run(u, MayFail, TRUE)

SpecClusterFaults == Init /\ [][NextClusterFaults]_vars

\* create with its auto-linking, link of every type, unlink, setStatus and
\* the clustering run, for one user
NextFrame ==
  \/ POST_memories(1, Available, OneBody, FALSE)
  \/ \E f, t \in MemIds, ty \in RelationshipType : POST_relationships(f, t, ty, FALSE)
  \/ \E id \in RelIds : deleteRelationship(id, FALSE)
  \/ \E id \in MemIds, st \in MemoryStatus : updateMemoryStatus(id, st, 1, FALSE)
  \/ POST_cluster_run(1, Available, FALSE)

SpecFrame == Init /\ [][NextFrame]_vars

\* ------------------------------------------- MongoDB relationship service
\* createMemory of the MongoDB memory service: the document carries no
\* namespace; the index entry is written without one
MongoCreateMemory(outcomes) ==
  /\ nextMem <= MaxMem
  /\ \E embedOk, upsertOk \in outcomes :
       vectors' = IF embedOk /\ upsertOk
                  THEN vectors \cup {[id |-> nextMem, memory_id |-> nextMem,
                                       namespace |-> NoNamespace]}
                  ELSE vectors
  /\ memories' = [i \in DOMAIN memories \cup {nextMem} |->
                    IF i = nextMem
                    THEN [namespace |-> NoNamespace, status |-> "current",
                          supersedes |-> NULL, superseded_by |-> NULL,
                          vector_id |-> nextMem,
                          content |-> "a",
                          metadata |-> JSONstringify(JsonObject({})),
                          updated_at |-> now]
                    ELSE memories[i]]
  /\ nextMem' = nextMem + 1
  /\ UNCHANGED <<clusterVars, namespaceVars, rels, nextRel, calls, deleted, now, last>>

\* updateOne({_id: id}, {$set: ...}): the document when it exists, nothing
\* (and no error) when it does not
UpdateOne(mems, id, field, value) ==
  IF id \in DOMAIN mems THEN [mems EXCEPT ![id][field] = value] ELSE mems

\* a call of createRelationship is at one of its awaited writes:
\* "setFrom" (first updateOne), "setTo" (second updateOne), "insert"
\* (insertOne), or it is over: "done" (returned) or "failed" (a write threw).
\* didFrom, didTo, didEdge record what the call has written so far.
\* if (relationship.type === RelationshipType.UPDATE) guards the two updateOne
FirstWrite(type) == IF type = "update" THEN "setFrom" ELSE "insert"

\* createRelationship is entered; fromId and toId are ids genId('mem') has
\* returned, a caller knows no other
MongoLinkStart(fromId, toId, type) ==
  /\ Len(calls) < MaxCalls
  /\ fromId < nextMem /\ toId < nextMem
  /\ nextRel <= MaxRel
  /\ calls' = Append(calls, [id |-> nextRel, from |-> fromId, to |-> toId,
                             type |-> type, pc |-> FirstWrite(type),
                             didFrom |-> FALSE, didTo |-> FALSE, didEdge |-> FALSE])
  /\ nextRel' = nextRel + 1
  /\ UNCHANGED <<clusterVars, namespaceVars, memories, rels, vectors, nextMem, deleted, now, last>>

\* await db.collection('memories').updateOne({_id: fromMemoryId},
\*   {$set: {status: OUTDATED, superseded_by: relationship.to}})
MongoLinkSetFrom(k) ==
  /\ k \in DOMAIN calls
  /\ calls[k].pc = "setFrom"
  /\ memories' = UpdateOne(UpdateOne(memories, calls[k].from, "status", "outdated"),
                           calls[k].from, "superseded_by", calls[k].to)
  /\ calls' = [calls EXCEPT ![k].pc = "setTo",
                            ![k].didFrom = calls[k].from \in DOMAIN memories]
  /\ UNCHANGED <<clusterVars, namespaceVars, rels, vectors, nextMem, nextRel, deleted, now, last>>

\* await db.collection('memories').updateOne({_id: relationship.to},
\*   {$set: {supersedes: fromMemoryId}})
MongoLinkSetTo(k) ==
  /\ k \in DOMAIN calls
  /\ calls[k].pc = "setTo"
  /\ memories' = UpdateOne(memories, calls[k].to, "supersedes", calls[k].from)
  /\ calls' = [calls EXCEPT ![k].pc = "insert",
                            ![k].didTo = calls[k].to \in DOMAIN memories]
  /\ UNCHANGED <<clusterVars, namespaceVars, rels, vectors, nextMem, nextRel, deleted, now, last>>

\* await db.collection('relationships').insertOne(relationshipDoc)
MongoLinkInsert(k) ==
  /\ k \in DOMAIN calls
  /\ calls[k].pc = "insert"
  /\ rels' = MergeEdge(rels, calls[k].id, calls[k].from, calls[k].to, calls[k].type)
  /\ calls' = [calls EXCEPT ![k].pc = "done", ![k].didEdge = TRUE]
  /\ UNCHANGED <<clusterVars, namespaceVars, memories, vectors, nextMem, nextRel, deleted, now, last>>

\* the awaited write rejects (connection lost, write error): the exception
\* leaves createRelationship; nothing undoes the writes already made
MongoLinkFail(k) ==
  /\ k \in DOMAIN calls
  /\ calls[k].pc \in {"setFrom", "setTo", "insert"}
  /\ calls' = [calls EXCEPT ![k].pc = "failed"]
  /\ UNCHANGED <<clusterVars, namespaceVars, memories, rels, vectors, nextMem, nextRel, deleted, now, last>>

\* deleteMemory of the MongoDB memory service: deleteOne({_id: memoryId})
MongoDeleteMemory(memoryId) ==
  /\ memoryId \in DOMAIN memories
  /\ memories' = [i \in DOMAIN memories \ {memoryId} |-> memories[i]]
  /\ UNCHANGED <<clusterVars, namespaceVars, rels, vectors, nextMem, nextRel, calls, deleted, now, last>>

\* GET /api/memories/:id/lineage of the MongoDB stack: find with $or over
\* from_memory / to_memory, relatedIds.add of both ends of every relationship,
\* then find({_id: {$in: relatedIds}})
MongoLineageOf(mems, rs, memoryId) ==
  IF memoryId \notin DOMAIN mems
  THEN [status |-> 404, relationships |-> {}, related_memories |-> {}]
  ELSE LET relationshipsRaw == {r \in rs : r.from = memoryId \/ r.to = memoryId}
           relatedIds == {r.from : r \in relationshipsRaw}
                           \cup {r.to : r \in relationshipsRaw}
       IN  [status |-> 200,
            relationships |-> relationshipsRaw,
            related_memories |-> relatedIds \cap DOMAIN mems]

NextMongo ==
  \/ MongoCreateMemory(Available)
  \/ \E id \in MemIds : MongoDeleteMemory(id)
  \/ \E f, t \in MemIds, ty \in {"update", "extend"} : MongoLinkStart(f, t, ty)
  \/ \E k \in 1..MaxCalls : MongoLinkSetFrom(k)
  \/ \E k \in 1..MaxCalls : MongoLinkSetTo(k)
  \/ \E k \in 1..MaxCalls : MongoLinkInsert(k)
  \/ \E k \in 1..MaxCalls : MongoLinkFail(k)

SpecMongo == Init /\ [][NextMongo]_vars

\* ------------------------------------------------------ relationship reads
\* OPTIONAL MATCH returns one row of nulls when nothing matches
RowsOf(matched) == IF matched = {} THEN 1 ELSE Cardinality(matched)

\* getMemoryRelationships(memoryId) on the graph: MATCH (m), two OPTIONAL
\* MATCHes one after the other (every outgoing relationship paired with every
\* incoming one), COLLECT of the outgoing map of every row + COLLECT of the
\* incoming map of every row, the maps with a null relationship dropped.  The
\* returned array as edge -> number of occurrences
getMemoryRelationships(mems, rs, memoryId) ==
  LET r_out == {r \in rs : memoryId \in DOMAIN mems /\ r.from = memoryId}
      r_in == {r \in rs : memoryId \in DOMAIN mems /\ r.to = memoryId}
  IN  [r \in r_out \cup r_in |->
         (IF r \in r_out THEN RowsOf(r_in) ELSE 0)
           + (IF r \in r_in THEN RowsOf(r_out) ELSE 0)]

\* getMemoryRelationships(memoryId) of the MongoDB service:
\* find({$or: [{from_memory: memoryId}, {to_memory: memoryId}]}).toArray()
MongoGetMemoryRelationships(rs, memoryId) ==
  [r \in {x \in rs : x.from = memoryId \/ x.to = memoryId} |-> 1]

\* the stores the reads are applied to: MaxMem memories createMemory stored
\* for one user, and up to MaxEdges relationships that createRelationship
\* added between two different ones (type extend, which sets no status)
Graphs == UNION {[1..k -> {p \in MemIds \X MemIds : p[1] # p[2]}] : k \in 0..MaxEdges}

InitReads ==
  /\ memories = [i \in MemIds |->
                   [namespace |-> 1, status |-> "current",
                    supersedes |-> NULL, superseded_by |-> NULL,
                    vector_id |-> i, content |-> "a",
                    metadata |-> JSONstringify(JsonObject({})),
                    updated_at |-> 0]]
  /\ \E g \in Graphs :
       /\ rels = {[id |-> i, from |-> g[i][1], to |-> g[i][2], label |-> Label("extend")]
                      : i \in DOMAIN g}
       /\ nextRel = Len(g) + 1
  /\ vectors = {[id |-> i, memory_id |-> i, namespace |-> 1] : i \in MemIds}
  /\ nextMem = MaxMem + 1
  /\ calls = <<>>
  /\ deleted = <<>>
  /\ now = 0
  /\ last = [op |-> "none"]
  /\ memory_clusters = {}
  /\ cluster_nodes = {}
  /\ belongs_to = {}
  /\ namespace_rows = [u \in Namespaces |-> 1]
  /\ ensureCalls = <<>>

ReadRelationships(memoryId) ==
  /\ last' = [op |-> "relationshipsFor", id |-> memoryId,
              result |-> getMemoryRelationships(memories, rels, memoryId)]
  /\ UNCHANGED <<clusterVars, namespaceVars, memories, rels, vectors, nextMem, nextRel, calls, deleted, now>>

MongoReadRelationships(memoryId) ==
  /\ last' = [op |-> "mongoRelationshipsFor", id |-> memoryId,
              result |-> MongoGetMemoryRelationships(rels, memoryId)]
  /\ UNCHANGED <<clusterVars, namespaceVars, memories, rels, vectors, nextMem, nextRel, calls, deleted, now>>

NextReads ==
  \/ \E id \in MemIds : ReadRelationships(id)
  \/ \E id \in MemIds : MongoReadRelationships(id)

SpecReads == InitReads /\ [][NextReads]_vars

\* ================================================================= claims
UpdateEdges == {r \in rels : r.label = "UPDATES"}

\* the memories reachable from the set S along UPDATE edges (S included)
RECURSIVE UpdateClosure(_)
UpdateClosure(S) ==
  LET T == S \cup {r.to : r \in {e \in UpdateEdges : e.from \in S}}
  IN  IF T = S THEN S ELSE UpdateClosure(T)

\* a path of one or more UPDATE edges leads from a to b
Supersedes(a, b) ==
  b \in UpdateClosure({r.to : r \in {e \in UpdateEdges : e.from = a}})

\* the memories of a's supersession lineage: connected to a by UPDATE edges
\* taken in either direction
RECURSIVE Lineage(_)
Lineage(S) ==
  LET T == S \cup {r.to : r \in {e \in UpdateEdges : e.from \in S}}
             \cup {r.from : r \in {e \in UpdateEdges : e.to \in S}}
  IN  IF T = S THEN S ELSE Lineage(T)

\* C1: link(from, to, UPDATE) is all-or-nothing in every reachable state,
\* also one seen while the call runs or left behind by a failed write: of
\* the call's three effects (from marked OUTDATED with supersededBy, to given
\* supersedes, the edge inserted) either all or none have happened; no memory
\* is OUTDATED by a call whose edge is missing, and no UPDATE edge leaves a
\* memory that is still CURRENT.
C1_LinkUpdateAllOrNothing ==
  /\ \A k \in DOMAIN calls :
       (calls[k].type = "update" /\ calls[k].from # calls[k].to) =>
         /\ calls[k].didFrom = calls[k].didEdge
         /\ calls[k].didTo = calls[k].didEdge
  /\ \A r \in UpdateEdges :
       r.from \in DOMAIN memories => memories[r.from].status = "outdated"

\* C2: the UPDATE edges never form a directed cycle through two or more
\* memories (the self-loop is C5's case): no two distinct memories
\* supersede each other, directly or through a chain.
C2_UpdateEdgesAcyclic ==
  \A a, b \in MemIds : a # b => ~(Supersedes(a, b) /\ Supersedes(b, a))

\* C3: when an UPDATE edge m1->m2 exists, link(m2, m1, UPDATE) fails and
\* changes neither a memory nor the set of edges.
C3_ReverseLinkRejected ==
  [][\A m1, m2 \in MemIds :
       ( /\ m1 # m2
         /\ \E r \in UpdateEdges : r.from = m1 /\ r.to = m2
         /\ POST_relationships(m2, m1, "update", FALSE) )
       => ( /\ ~createRelationship(memories, rels, nextRel, m2, m1, "update").ok
            /\ UNCHANGED <<memories, rels>> )]_vars

\* C4: among the memories of one supersession lineage (connected by UPDATE
\* edges) at most one is CURRENT.
C4_OneCurrentPerLineage ==
  \A a \in DOMAIN memories : \A b \in Lineage({a}) :
    (a # b /\ b \in DOMAIN memories)
      => ~(memories[a].status = "current" /\ memories[b].status = "current")

\* C5: no edge has fromMemory = toMemory, and no memory names itself in
\* supersedes or supersededBy.
C5_NoSelfLoop ==
  /\ \A r \in rels : r.from # r.to
  /\ \A m \in DOMAIN memories :
       memories[m].supersedes # m /\ memories[m].superseded_by # m

\* C6: every relationship edge connects two memories of the same namespace.
C6_NoCrossNamespaceEdge ==
  \A r \in rels :
    (r.from \in DOMAIN memories /\ r.to \in DOMAIN memories)
      => memories[r.from].namespace = memories[r.to].namespace

\* what namespace n holds: its Memory nodes, the edges between them, its
\* index entries
OwnMemories(n) ==
  [i \in {j \in DOMAIN memories : memories[j].namespace = n} |-> memories[i]]
OwnRels(n) ==
  {r \in rels : r.from \in DOMAIN OwnMemories(n) /\ r.to \in DOMAIN OwnMemories(n)}
OwnVectors(n) == {v \in vectors : v.namespace = n}

\* C7: for every namespace n, getAllMemories, getMemory, the lineage, the
\* graph read and the search return only memories (and edges between
\* memories) of n, and return what they would return if the other
\* namespaces held nothing.
C7_ReadIsolation ==
  \A n \in Namespaces :
    /\ \A m \in getAllMemories(memories, n) : memories[m.id].namespace = n
    /\ getAllMemories(memories, n) = getAllMemories(OwnMemories(n), n)
    /\ \A id \in MemIds :
         /\ getMemory(memories, id, n) = getMemory(OwnMemories(n), id, n)
         /\ getMemory(memories, id, n).id # NULL
              => memories[id].namespace = n
         /\ lineageOf(memories, rels, id, n) = lineageOf(OwnMemories(n), OwnRels(n), id, n)
         /\ lineageOf(memories, rels, id, n).status = 200
              => \A m \in lineageOf(memories, rels, id, n).related_memories :
                   memories[m.id].namespace = n
    /\ graphOf(memories, rels, n) = graphOf(OwnMemories(n), OwnRels(n), n)
    /\ \A r \in graphOf(memories, rels, n).relationships :
         /\ getMemory(memories, r.from_memory, n).id # NULL
         /\ getMemory(memories, r.to_memory, n).id # NULL
    /\ SearchHits(vectors, n) = SearchHits(OwnVectors(n), n)
    /\ \A hits \in SearchHits(vectors, n) :
         /\ searchMemories(memories, hits, n) = searchMemories(OwnMemories(n), hits, n)
         /\ \A m \in searchMemories(memories, hits, n) : memories[m.id].namespace = n
    /\ searchFallback(memories, n) = searchFallback(OwnMemories(n), n)
    /\ \A m \in searchFallback(memories, n) : memories[m.id].namespace = n

\* a root with a neighbour of its own namespace and an edge to a memory of
\* another namespace, so the lineage has something to return and to leave out
C7_Witness ==
  \E n \in Namespaces, id \in DOMAIN memories :
    /\ lineageOf(memories, rels, id, n).status = 200
    /\ lineageOf(memories, rels, id, n).related_memories # {}
    /\ \E r \in rels : r.from = id /\ memories[r.to].namespace # n
    /\ \E v \in vectors : v.namespace # n

\* C8: a step of link, unlink, create or delete (any step but setStatus)
\* leaves every OUTDATED memory that still exists OUTDATED, and unlink
\* removes the edge and changes no memory.
C8_SupersessionPermanent ==
  [][ /\ ( \/ \A m \in DOMAIN memories \cap DOMAIN memories' :
                memories[m].status = "outdated" => memories'[m].status = "outdated"
           \/ SetStatus )
      /\ \A id \in RelIds :
           deleteRelationship(id, FALSE)
             => /\ memories' = memories
                /\ rels' = {r \in rels : r.id # id} ]_vars

\* an OUTDATED memory whose successor still exists and still names it, with
\* the UPDATE edge between them gone: the edge was unlinked
C8_Witness ==
  \E m, s \in DOMAIN memories :
    /\ memories[m].status = "outdated"
    /\ memories[m].superseded_by = s
    /\ memories[s].supersedes = m
    /\ ~\E r \in UpdateEdges : r.from = m /\ r.to = s

\* C9: at most one edge per (from, to, type) for the types extend, derive
\* and related.
C9_OneEdgePerTriple ==
  \A r1, r2 \in rels :
    ( /\ r1.label # "UPDATES"
      /\ r1.from = r2.from /\ r1.to = r2.to /\ r1.label = r2.label )
      => r1 = r2

\* C10: after DELETE of a memory that resolves in the namespace, getMemory
\* returns null, no edge starts or ends at the memory, and, when
\* deleteEmbedding did not throw, the index holds no entry under the
\* memory's vector id in that namespace.
C10_DeleteRemovesAll ==
  \A id \in DOMAIN deleted :
    /\ getMemory(memories, id, deleted[id].namespace).id = NULL
    /\ \A r \in rels : r.from # id /\ r.to # id
    /\ deleted[id].vecOk
         => ~\E v \in vectors : /\ v.id = deleted[id].vector_id
                                /\ v.namespace = deleted[id].namespace

\* scenario D: a memory with an index entry and two edges was deleted while
\* the index answered
C10_Witness ==
  \E id \in DOMAIN deleted :
    /\ deleted[id].edges = 2
    /\ deleted[id].hadVector
    /\ deleted[id].vecOk

\* C11: a DELETE whose deleteEmbedding threw still removed the node and every
\* edge at it: the index failure neither stops the delete nor leaves the node.
C11_DeleteSurvivesVectorFailure ==
  \A id \in DOMAIN deleted :
    ~deleted[id].vecOk
      => /\ id \notin DOMAIN memories
         /\ ~\E r \in rels : r.from = id \/ r.to = id

\* a memory with an index entry and an edge was deleted while deleteEmbedding
\* threw: the entry is still in the index, the node is not in the graph
C11_Witness ==
  \E id \in DOMAIN deleted :
    /\ ~deleted[id].vecOk
    /\ deleted[id].hadVector
    /\ deleted[id].edges >= 1
    /\ \E v \in vectors : v.id = deleted[id].vector_id
    /\ id \notin DOMAIN memories

\* the last call is a createMemory that returned (POST /api/memories, 201)
Created == last.op = "create" /\ last.status = 201

\* the matches of the last create whose target is a Memory node other than
\* the new one, and the RELATED edges from the new memory
LinkableMatches == {m \in last.matches : m.memory_id \in DOMAIN memories \ {last.id}}
AutoLinked(target) ==
  \E r \in rels : r.from = last.id /\ r.to = target /\ r.label = "RELATED"

\* create with a user and content answers 201 and the node is CURRENT with
\* supersedes = superseded_by = null, whatever the providers did
CreatePersists ==
  /\ (last.op = "create" /\ last.namespace # NoNamespace /\ last.body.content # "")
       => last.status = 201
  /\ Created
       => /\ last.id \in DOMAIN memories
          /\ memories[last.id].status = "current"
          /\ memories[last.id].supersedes = NULL
          /\ memories[last.id].superseded_by = NULL
          /\ last.memory.status = "current"

\* C12 as stated: create succeeds and persists a CURRENT memory whether or not
\* the embedding or the upsert fails, and either failure makes auto-linking
\* be skipped (no edge leaves the new memory).
C12_FailureSkipsAutoLink ==
  /\ CreatePersists
  /\ (Created /\ (~last.embedOk \/ ~last.upsertOk))
       => ~\E r \in rels : r.from = last.id

\* C12 amended: create succeeds and persists a CURRENT memory whether or not
\* the embedding or the upsert fails; a failed embedding skips auto-linking,
\* a failed upsert after a successful embedding does not: every match that
\* qualifies and resolves is still linked.
C12_CreateToleratesProviderFailure ==
  /\ CreatePersists
  /\ (Created /\ ~last.embedOk) => ~\E r \in rels : r.from = last.id
  /\ (Created /\ last.embedOk /\ ~last.upsertOk)
       => \A m \in LinkableMatches : Qualifies(m, last.id) => AutoLinked(m.memory_id)

\* a create whose upsert failed and which linked the new memory all the same,
\* the new memory having no index entry
C12_Witness ==
  /\ Created /\ last.embedOk /\ ~last.upsertOk
  /\ last.links >= 1
  /\ \E r \in rels : r.from = last.id
  /\ ~\E v \in vectors : v.memory_id = last.id

C15_AutoLinkAboveThreshold ==
  (Created /\ last.embedOk)
    => \A m \in LinkableMatches : AutoLinked(m.memory_id) <=> m.score > Threshold

\* C16: when a qualifying neighbour does not resolve (its node is gone, its
\* index entry is not), the create still returns, the new memory is stored and
\* every other qualifying neighbour is linked.
C16_AutoLinkIndependent ==
  (Created /\ last.embedOk)
    => /\ last.id \in DOMAIN memories
       /\ \A m \in LinkableMatches : Qualifies(m, last.id) => AutoLinked(m.memory_id)
       /\ last.links = Cardinality({m \in LinkableMatches : Qualifies(m, last.id)})

\* a create given two qualifying neighbours, one of them without a node:
\* one link made, one failed
C16_Witness ==
  /\ Created /\ last.embedOk
  /\ \E m \in last.matches : Qualifies(m, last.id) /\ m.memory_id \notin DOMAIN memories
  /\ \E m \in LinkableMatches : Qualifies(m, last.id) /\ AutoLinked(m.memory_id)
  /\ last.links = 1

\* the edges that touch root and the other ends of those edges
Touching(root) == {r \in rels : r.from = root \/ r.to = root}
OtherEnds(root) == {IF r.from = root THEN r.to ELSE r.from : r \in Touching(root)}

\* C17: for every memory, the lineage response lists exactly the edges that
\* touch it and exactly the memories at the other ends of those edges (both
\* empty for an isolated memory).
C17_LineageIsOneHop ==
  \A root \in DOMAIN memories :
    LET l == MongoLineageOf(memories, rels, root)
    IN  /\ l.status = 200
        /\ l.relationships = Touching(root)
        /\ l.related_memories = OtherEnds(root)

\* C18: the relationships read returns every edge that touches the memory,
\* each exactly once, whatever the numbers of its incoming and outgoing edges.
C18_EachEdgeOnce ==
  last.op \in {"relationshipsFor", "mongoRelationshipsFor"}
    => last.result = [r \in Touching(last.id) |-> 1]

\* C19: an operation addressed to an id (and namespace) that does not resolve
\* is answered NotFound (404) and changes no node, edge or index entry:
\* setStatus, delete, unlink and link with a missing endpoint as steps, get
\* and lineageOf on every pair that does not resolve.
C19_NotFoundChangesNothing ==
  [][/\ (last'.op \in {"setStatus", "delete", "unlink", "link"} /\ ~last'.resolved)
          => /\ last'.status = 404
             /\ UNCHANGED <<memories, rels, vectors>>
     /\ \A id \in MemIds, ns \in Namespaces :
          ~MatchMemory(memories', id, ns)
            => /\ getMemory(memories', id, ns).id = NULL
               /\ lineageOf(memories', rels', id, ns).status = 404]_vars

\* C20: setStatus with the status the memory already has leaves the stored
\* memories as they are, so a second setStatus(id, s) right after the first
\* changes nothing.
C20_SetStatusIdempotent ==
  [][(last'.op = "setStatus" /\ last'.resolved /\ last'.prior = last'.arg)
       => UNCHANGED memories]_vars

\* the group the last clustering run put the vector of memory m in
GroupsOf(m) ==
  {c \in last.results : \E v \in vectors : v.memory_id = m /\ VecId(v.id) \in c.memoryIds}

\* C21: after a clustering run that succeeded, every memory of the user the
\* run put in a cluster has exactly one BELONGS_TO edge and exactly one
\* membership record, both to that cluster, and every memory the run labelled
\* noise has neither.
C21_MembershipIsLastAssignment ==
  (last.op = "cluster" /\ last.ran /\ last.status = 200)
    => \A m \in DOMAIN memories : \A c \in GroupsOf(m) :
         /\ {e \in belongs_to : e.from = m}
              = (IF c.noise THEN {}
                 ELSE {[from |-> m, cluster_id |-> c.clusterId, user_id |-> last.user]})
         /\ {r \in memory_clusters : r.memory_id = MemId(m)}
              = (IF c.noise THEN {}
                 ELSE {[user_id |-> last.user, memory_id |-> MemId(m),
                        cluster_id |-> c.clusterId]})

\* C22: a clustering run for a user whose namespace holds fewer than
\* minPoints vectors (zero included) answers 200 without running the
\* assignment, and leaves every membership record, Cluster node and
\* BELONGS_TO edge as it was.
C22_TooFewVectorsAssignsNothing ==
  [][(/\ last' # last
      /\ last'.op = "cluster"
      /\ last'.user # NoNamespace
      /\ getUserDefaultNamespace(namespace_rows, last'.user)
      /\ last'.count < MinPoints)
       => (last'.status = 200 /\ ~last'.ran /\ UNCHANGED clusterVars)]_vars

\* a run over two vectors, after an earlier run over three left records
C22_Witness ==
  /\ last.op = "cluster" /\ last.user = 1 /\ ~last.ran
  /\ last.count = 2 /\ last.status = 200
  /\ Cardinality(getVectorsForClustering(vectors, 1)) = 2
  /\ memory_clusters # {}

\* C23: a clustering run that reached the assignment answers 200 whatever
\* storage call failed, and every cluster whose own graph write did not fail
\* has its Cluster node.
C23_AssignmentFailureContained ==
  (last.op = "cluster" /\ last.ran)
    => /\ last.status = 200
       /\ \A c \in last.results :
            (Persists(c) /\ c.clusterId \in last.syncOk)
              => [cluster_id |-> c.clusterId, user_id |-> last.user] \in cluster_nodes

\* C25: after creates and links only, a.superseded_by = b exactly when
\* b.supersedes = a, and exactly when an UPDATES edge a->b exists.
C25_PointersAgreeWithEdges ==
  \A a, b \in DOMAIN memories :
    /\ (memories[a].superseded_by = b) <=> (memories[b].supersedes = a)
    /\ (memories[b].supersedes = a) <=> (\E r \in UpdateEdges : r.from = a /\ r.to = b)

\* the types under which the reads report the edge with this id: getRelationship,
\* getMemoryRelationships of its source, the lineage of its source, the graph
ReportedTypes(id, from, namespace) ==
  {getRelationship(rels, id).type}
    \cup {ToRelationship(r).type :
            r \in {x \in DOMAIN getMemoryRelationships(memories, rels, from) : x.id = id}}
    \cup {r.type : r \in {x \in lineageOf(memories, rels, from, namespace).relationships
                                 : x.id = id}}
    \cup {r.type : r \in {x \in graphOf(memories, rels, namespace).relationships : x.id = id}}

\* C26: an edge that link created with type T is reported with type T by
\* getRelationship, relationshipsFor, lineageOf and the graph read.
C26_TypeRoundTrip ==
  (last.op = "link" /\ last.status = 201)
    => ReportedTypes(nextRel - 1, last.from, memories[last.from].namespace) = {last.type}

\* C27: in every step, a memory whose updated_at changes also changes its
\* status (so link of type update leaves to.updated_at alone, and links of the
\* other types and unlink leave every updated_at alone).
C27_UpdatedAtOnlyOnTransition ==
  [][\A i \in DOMAIN memories \cap DOMAIN memories' :
       memories'[i].updated_at # memories[i].updated_at
         => memories'[i].status # memories[i].status]_vars

\* C29: every supersedes or superseded_by of an existing memory that is set
\* names an existing memory of the same namespace.
C29_PointersResolve ==
  \A a \in DOMAIN memories :
    \A p \in {memories[a].supersedes, memories[a].superseded_by} \ {NULL} :
      p \in DOMAIN memories /\ memories[p].namespace = memories[a].namespace

\* the step leaves content, metadata, namespace and vector_id of memory i alone
KeepsIdentity(i) ==
  /\ memories'[i].content = memories[i].content
  /\ memories'[i].metadata = memories[i].metadata
  /\ memories'[i].namespace = memories[i].namespace
  /\ memories'[i].vector_id = memories[i].vector_id

\* the step adds an UPDATES edge at memory i: a link of type update
LinksUpdateAt(i) ==
  \E r \in rels' \ rels : r.label = "UPDATES" /\ i \in {r.from, r.to}

\* the step writes nothing but status and updated_at of memory i: a setStatus
SetsStatusOf(i) ==
  /\ rels' = rels /\ vectors' = vectors /\ UNCHANGED clusterVars
  /\ memories' = [memories EXCEPT ![i].status = memories'[i].status,
                                   ![i].updated_at = memories'[i].updated_at]

\* C28: in every step every memory that exists before and after it keeps
\* content, metadata, namespace and vector_id (the id is its key), and is left
\* wholly unchanged unless the step is a link of type update at that memory
\* or a setStatus of that memory; so links of the other types, unlink,
\* auto-linking and clustering write no field of it.
C28_MemoryFieldsFrame ==
  [][\A i \in DOMAIN memories \cap DOMAIN memories' :
       /\ KeepsIdentity(i)
       /\ memories'[i] = memories[i] \/ LinksUpdateAt(i) \/ SetsStatusOf(i)]_vars

\* an explicit link of another type joins two memories that are still current
\* and unsuperseded, after a clustering run stored memberships
C28_Witness ==
  /\ memory_clusters # {}
  /\ \E r \in rels :
       /\ r.label \in {"EXTEND", "DERIVE"}
       /\ \A i \in {r.from, r.to} :
            /\ i \in DOMAIN memories
            /\ memories[i].status = "current"
            /\ memories[i].supersedes = NULL /\ memories[i].superseded_by = NULL

\* C30: whenever a call of ensureUserNamespace has returned for a user,
\* exactly one default namespace row exists for that user, all returned calls
\* for the user returned the same pair, and no call that began after one had
\* returned inserted a row.
C30_OneDefaultNamespace ==
  \A k \in DOMAIN ensureCalls :
    ensureCalls[k].pc = "done"
      => /\ namespace_rows[ensureCalls[k].user] = 1
         /\ \A j \in DOMAIN ensureCalls :
              (ensureCalls[j].pc = "done" /\ ensureCalls[j].user = ensureCalls[k].user)
                => Returned(j) = Returned(k)
         /\ ensureCalls[k].served => ~ensureCalls[k].inserted

====
